---- MODULE Spec2Model ----
(***************************************************************************)
(* Model of deploy.py, the xiDIS deployment orchestrator: one process run  *)
(* is parse_args, setup_logging, load_config, the construction of the      *)
(* Context, the phase dispatch of main and the teardown check.  The        *)
(* environment invokes the script again and again with arbitrary command   *)
(* lines; the external fabric persists across invocations.                 *)
(***************************************************************************)
EXTENDS Integers, Sequences, FiniteSets, Bags, TLC

\* Longest --limit string drawn, in characters.
MaxLimitLen == 2
\* Number of distinct schema violations a config document can carry.
MaxViolations == 2
\* Invocations stop once some (phase, host) pair was mutated this often.
MaxMutations == 2

(***************************************************************************)
(* Values                                                                  *)
(***************************************************************************)
\* Python's None and a present value, as sequences of length 0 and 1.
None == <<>>
Some(x) == <<x>>

\* Strings are sequences of characters; "a" is the host of the config
\* document, "x" a host the config document does not have.
Chars == {"a", "x", ","}
Strs == UNION {[1..n -> Chars] : n \in 0..MaxLimitLen}
ConfigHosts == {<<"a">>}

\* The file behind --config: unreadable, not JSON, or JSON carrying the set
\* of schema violations Draft7Validator.iter_errors finds in it.
Documents ==
    [kind : {"unreadable", "malformed"}, violations : {{}}, hosts : {{}}]
    \cup [kind : {"json"}, violations : SUBSET (1..MaxViolations),
          hosts : {ConfigHosts}]

\* PHASES: the name-to-function table, in insertion order.
\* Faulty variant of PHASES: two entries of the table exchanged.
PHASES_swapped ==
    << [key |-> "precheck", fn |-> "phase_precheck"],
       [key |-> "storage",  fn |-> "phase_agg"],
       [key |-> "agg",      fn |-> "phase_storage"],
       [key |-> "raid",     fn |-> "phase_raid"],
       [key |-> "reexport", fn |-> "phase_reexport"],
       [key |-> "verify",   fn |-> "phase_verify"] >>
PHASES ==
    << [key |-> "precheck", fn |-> "phase_precheck"],
       [key |-> "storage",  fn |-> "phase_storage"],
       [key |-> "agg",      fn |-> "phase_agg"],
       [key |-> "raid",     fn |-> "phase_raid"],
       [key |-> "reexport", fn |-> "phase_reexport"],
       [key |-> "verify",   fn |-> "phase_verify"] >>

PhaseKeys == {PHASES[i].key : i \in 1..Len(PHASES)}
\* PHASES[key]
Lookup(key) == (CHOOSE i \in 1..Len(PHASES) : PHASES[i].key = key)

\* Values tried for --phase: the keys of PHASES and a name that is no key.
PhaseArgs == PhaseKeys \cup {"opus_raid"}

Argv ==
    [config : {None} \cup {Some(d) : d \in Documents},
     limit : {None} \cup {Some(s) : s \in Strs},
     phase : {None} \cup {Some(p) : p \in PhaseArgs},
     dry_run : BOOLEAN,
     teardown : BOOLEAN]

NoArgv ==
    [config |-> None, limit |-> None, phase |-> None,
     dry_run |-> FALSE, teardown |-> FALSE]
NoDocument == [kind |-> "unreadable", violations |-> {}, hosts |-> {}]
NoArgs ==
    [config |-> NoDocument, limit |-> None, phase |-> None,
     dry_run |-> FALSE, teardown |-> FALSE]
NoContext == [config |-> NoDocument, limit |-> None, dry_run |-> FALSE]

(***************************************************************************)
(* Pure functions                                                          *)
(***************************************************************************)
\* Python truthiness of a string or a list.
Truthy(s) == Len(s) > 0

\* str.split(","): the substrings between the commas; "" gives [""].
RECURSIVE str_split(_)
str_split(s) ==
    IF \A i \in 1..Len(s) : s[i] # ","
    THEN <<s>>
    ELSE LET i == CHOOSE k \in 1..Len(s) :
                      s[k] = "," /\ \A j \in 1..(k - 1) : s[j] # ","
         IN <<SubSeq(s, 1, i - 1)>> \o str_split(SubSeq(s, i + 1, Len(s)))

\* sorted(validator.iter_errors(data), key=lambda e: e.path): violation v sits
\* at path v.
RECURSIVE sorted(_)
sorted(S) ==
    IF S = {} THEN <<>>
    ELSE LET m == CHOOSE v \in S : \A w \in S : v <= w
         IN <<m>> \o sorted(S \ {m})

\* The hosts a Context covers: the --limit list, or every host of the config.
Targets(c) ==
    IF c.limit = None THEN c.config.hosts
    ELSE {c.limit[1][i] : i \in 1..Len(c.limit[1])}

\* The phase functions.  Each returns what it logs and the set of
\* (phase, host) mutations it performs on the fabric; the bodies are a
\* logging call and a placeholder comment.
Info(text, all, hosts) ==
    [level |-> "INFO", text |-> text, all |-> all, hosts |-> hosts]

phase_precheck(c) ==
    [log |-> << IF c.limit # None /\ Truthy(c.limit[1])
                THEN Info("precheck phase for hosts", FALSE, c.limit[1])
                ELSE Info("precheck phase for hosts", TRUE, <<>>) >>,
     effects |-> {}]

\* Faulty variants of phase_storage: one is silent in a dry run, one mutates
\* the fabric on every call.
phase_storage_quiet(c) ==
    [log |-> IF c.dry_run THEN <<>>
             ELSE << Info("storage_export phase", FALSE, <<>>) >>,
     effects |-> {}]
phase_storage_mutating(c) ==
    [log |-> << Info("storage_export phase", FALSE, <<>>) >>,
     effects |-> {<<"storage_export", h>> : h \in Targets(c)}]
phase_storage(c) ==
    [log |-> << Info("storage_export phase", FALSE, <<>>) >>,
     effects |-> {}]

phase_agg(c) ==
    [log |-> << Info("aggregator_connect phase", FALSE, <<>>) >>,
     effects |-> {}]

phase_raid(c) ==
    [log |-> << Info("opus_raid phase", FALSE, <<>>) >>,
     effects |-> {}]

phase_reexport(c) ==
    [log |-> << Info("reexport phase", FALSE, <<>>) >>,
     effects |-> {}]

phase_verify(c) ==
    [log |-> << Info("verify phase", FALSE, <<>>) >>,
     effects |-> {}]

\* fn(ctx) for a function of the PHASES table.
Call(fn, c) ==
    CASE fn = "phase_precheck" -> phase_precheck(c)
      [] fn = "phase_storage"  -> phase_storage(c)
      [] fn = "phase_agg"      -> phase_agg(c)
      [] fn = "phase_raid"     -> phase_raid(c)
      [] fn = "phase_reexport" -> phase_reexport(c)
      [] fn = "phase_verify"   -> phase_verify(c)

\* The phase a function names itself in its log message.
PhaseOf(fn) ==
    CASE fn = "phase_precheck" -> "precheck"
      [] fn = "phase_storage"  -> "storage_export"
      [] fn = "phase_agg"      -> "aggregator_connect"
      [] fn = "phase_raid"     -> "opus_raid"
      [] fn = "phase_reexport" -> "reexport"
      [] fn = "phase_verify"   -> "verify"

(***************************************************************************)
(* State                                                                   *)
(***************************************************************************)
VARIABLES
    pc,         \* position of the running process in main
    argv,       \* the command line of the running process
    args,       \* the Namespace parse_args returned
    handlers,   \* TRUE once setup_logging installed the log handlers
    ctx,        \* the Context main built
    idx,        \* position of the for loop in PHASES.values()
    calls,      \* the phase functions invoked by this process, with arguments
    log,        \* the records this process logged
    mutations,  \* the fabric mutations performed by this process
    error,      \* the exception that ended this process, if any
    fabric,     \* bag of the mutations performed on the fabric, all processes
    prev,       \* history: --phase and phases of the last process that returned
    twin        \* history: the previous process, if it differed only in --dry-run

vars == <<pc, argv, args, handlers, ctx, idx, calls, log, mutations, error,
          fabric, prev, twin>>

\* The phases this process invoked, in order.
Executed == [i \in 1..Len(calls) |-> PhaseOf(calls[i].fn)]

Init ==
    /\ pc = "shell"
    /\ argv = NoArgv
    /\ args = NoArgs
    /\ handlers = FALSE
    /\ ctx = NoContext
    /\ idx = 1
    /\ calls = <<>>
    /\ log = <<>>
    /\ mutations = {}
    /\ error = None
    /\ fabric = EmptyBag
    /\ prev = None
    /\ twin = None

Raise(type, detail) ==
    /\ error' = Some([type |-> type, detail |-> detail])
    /\ pc' = "exit"

\* args = parse_args(argv): --config is required and --phase must be one of
\* the keys of PHASES, else argparse exits.
parse_args ==
    /\ pc = "parse_args"
    /\ IF argv.config = None
          \/ (argv.phase # None /\ argv.phase[1] \notin PhaseKeys)
       THEN /\ Raise("SystemExit", <<>>)
            /\ UNCHANGED args
       ELSE /\ args' = [config |-> argv.config[1], limit |-> argv.limit,
                        phase |-> argv.phase, dry_run |-> argv.dry_run,
                        teardown |-> argv.teardown]
            /\ pc' = "setup_logging"
            /\ UNCHANGED error
    /\ UNCHANGED <<argv, handlers, ctx, idx, calls, log, mutations, fabric,
                   prev, twin>>

setup_logging ==
    /\ pc = "setup_logging"
    /\ handlers' = TRUE
    /\ pc' = "load_config"
    /\ UNCHANGED <<argv, args, ctx, idx, calls, log, mutations, error, fabric,
                   prev, twin>>

\* The ValidationError message: one entry per violation, in path order.
\* (Faulty variant: only the first violation is reported.)
load_config_msgs_first(errors) == SubSeq(errors, 1, 1)
load_config_msgs(errors) == errors

\* config = load_config(path); ctx = Context(config, limit, dry_run)
load_config ==
    /\ pc = "load_config"
    /\ LET data == args.config
           errors == sorted(data.violations)
       IN CASE data.kind = "unreadable" ->
                 /\ Raise("OSError", <<>>)
                 /\ UNCHANGED ctx
            [] data.kind = "malformed" ->
                 /\ Raise("JSONDecodeError", <<>>)
                 /\ UNCHANGED ctx
            [] data.kind = "json" /\ Truthy(errors) ->
                 /\ Raise("ValidationError", load_config_msgs(errors))
                 /\ UNCHANGED ctx
            [] OTHER ->
                 /\ ctx' = [config |-> data,
                            limit |-> IF args.limit # None
                                         /\ Truthy(args.limit[1])
                                      THEN Some(str_split(args.limit[1]))
                                      ELSE None,
                            dry_run |-> args.dry_run]
                 /\ pc' = "dispatch"
                 /\ UNCHANGED error
    /\ UNCHANGED <<argv, args, handlers, idx, calls, log, mutations, fabric,
                   prev, twin>>

\* fn(ctx): the call is recorded, its messages reach the installed handlers
\* and its mutations reach the fabric.
Invoked(fn) ==
    LET r == Call(fn, ctx)
    IN /\ calls' = Append(calls, [fn |-> fn, ctx |-> ctx])
       /\ log' = IF handlers THEN log \o r.log ELSE log
       /\ mutations' = mutations \cup r.effects
       /\ fabric' = fabric (+) SetToBag(r.effects)

\* if args.phase: PHASES[args.phase](ctx)
\* (Faulty variant: the else is missing, the loop runs as well.)
main_phase_fallthrough ==
    /\ pc = "dispatch"
    /\ args.phase # None
    /\ IF calls = <<>>
       THEN Invoked(PHASES[Lookup(args.phase[1])].fn)
       ELSE Invoked(PHASES[Len(calls)].fn)
    /\ pc' = IF Len(calls) = Len(PHASES) THEN "teardown" ELSE "dispatch"
    /\ UNCHANGED <<argv, args, handlers, ctx, idx, error, prev, twin>>
main_phase ==
    /\ pc = "dispatch"
    /\ args.phase # None
    /\ Invoked(PHASES[Lookup(args.phase[1])].fn)
    /\ pc' = "teardown"
    /\ UNCHANGED <<argv, args, handlers, ctx, idx, error, prev, twin>>

\* else: for fn in PHASES.values(): fn(ctx)   (one iteration)
\* (Faulty variant: a teardown run skips the phases.)
main_loop_forward_only ==
    /\ pc = "dispatch"
    /\ args.phase = None
    /\ idx <= Len(PHASES)
    /\ IF args.teardown
       THEN UNCHANGED <<calls, log, mutations, fabric>>
       ELSE Invoked(PHASES[idx].fn)
    /\ idx' = idx + 1
    /\ pc' = IF idx = Len(PHASES) THEN "teardown" ELSE "dispatch"
    /\ UNCHANGED <<argv, args, handlers, ctx, error, prev, twin>>
main_loop ==
    /\ pc = "dispatch"
    /\ args.phase = None
    /\ idx <= Len(PHASES)
    /\ Invoked(PHASES[idx].fn)
    /\ idx' = idx + 1
    /\ pc' = IF idx = Len(PHASES) THEN "teardown" ELSE "dispatch"
    /\ UNCHANGED <<argv, args, handlers, ctx, error, prev, twin>>

TeardownWarning ==
    [level |-> "WARNING", text |-> "teardown mode is not yet implemented",
     all |-> FALSE, hosts |-> <<>>]

\* if args.teardown: logging.warning(...); main returns
\* (Faulty variant: no warning.)
main_teardown_silent ==
    /\ pc = "teardown"
    /\ pc' = "done"
    /\ UNCHANGED <<argv, args, handlers, ctx, idx, calls, log, mutations,
                   error, fabric, prev, twin>>
main_teardown ==
    /\ pc = "teardown"
    /\ log' = IF args.teardown /\ handlers
              THEN Append(log, TeardownWarning) ELSE log
    /\ pc' = "done"
    /\ UNCHANGED <<argv, args, handlers, ctx, idx, calls, mutations, error,
                   fabric, prev, twin>>

\* The process ends and its memory is gone; what stays is the fabric.
Exit ==
    /\ pc \in {"done", "exit"}
    /\ pc' = "shell"
    /\ prev' = IF pc = "done"
               THEN Some([phase |-> args.phase, executed |-> Executed])
               ELSE prev
    /\ twin' = None
    /\ argv' = NoArgv
    /\ args' = NoArgs
    /\ handlers' = FALSE
    /\ ctx' = NoContext
    /\ idx' = 1
    /\ calls' = <<>>
    /\ log' = <<>>
    /\ mutations' = {}
    /\ error' = None
    /\ UNCHANGED fabric

\* if __name__ == "__main__": main()   with any command line
Invoke ==
    /\ pc = "shell"
    /\ \A e \in BagToSet(fabric) : CopiesIn(e, fabric) < MaxMutations
    /\ argv' \in Argv
    /\ pc' = "parse_args"
    /\ UNCHANGED <<args, handlers, ctx, idx, calls, log, mutations, error,
                   fabric, prev, twin>>

\* The script is run again with the same command line, --dry-run toggled.
Rerun ==
    /\ pc \in {"done", "exit"}
    /\ \A e \in BagToSet(fabric) : CopiesIn(e, fabric) < MaxMutations
    /\ argv' = [argv EXCEPT !.dry_run = ~argv.dry_run]
    /\ twin' = Some([pc |-> pc, log |-> log, executed |-> Executed,
                     mutations |-> mutations, dry_run |-> argv.dry_run])
    /\ prev' = IF pc = "done"
               THEN Some([phase |-> args.phase, executed |-> Executed])
               ELSE prev
    /\ pc' = "parse_args"
    /\ args' = NoArgs
    /\ handlers' = FALSE
    /\ ctx' = NoContext
    /\ idx' = 1
    /\ calls' = <<>>
    /\ log' = <<>>
    /\ mutations' = {}
    /\ error' = None
    /\ UNCHANGED fabric

Next ==
    \/ Invoke
    \/ parse_args
    \/ setup_logging
    \/ load_config
    \/ main_phase
    \/ main_loop
    \/ main_teardown
    \/ Exit
    \/ Rerun

Spec == Init /\ [][Next]_vars

(***************************************************************************)
(* Properties                                                              *)
(***************************************************************************)
\* The order of the phases in a forward run and in a teardown run, and the
\* phase each --phase value selects.
ForwardOrder ==
    <<"precheck", "storage_export", "aggregator_connect", "opus_raid",
      "reexport", "verify">>
TeardownOrder ==
    <<"reexport", "opus_raid", "aggregator_connect", "storage_export">>
SelectedPhase(key) ==
    CASE key = "precheck" -> "precheck"
      [] key = "storage"  -> "storage_export"
      [] key = "agg"      -> "aggregator_connect"
      [] key = "raid"     -> "opus_raid"
      [] key = "reexport" -> "reexport"
      [] key = "verify"   -> "verify"
IsPrefix(s, t) == Len(s) <= Len(t) /\ s = SubSeq(t, 1, Len(s))
Elems(s) == {s[i] : i \in 1..Len(s)}
Finished == pc \in {"done", "exit"}
\* The command line passes argparse and names a config that loads.
ConfigLoads ==
    /\ argv.config # None
    /\ argv.config[1].kind = "json"
    /\ argv.config[1].violations = {}
PhaseAccepted == argv.phase = None \/ argv.phase[1] \in PhaseKeys
\* The hosts --limit names that the config document does not have.
UnknownHosts ==
    IF argv.limit = None \/ argv.config = None THEN {}
    ELSE {h \in Elems(str_split(argv.limit[1])) :
            Truthy(h) /\ h \notin argv.config[1].hosts}
Warnings == {i \in 1..Len(log) : log[i].level = "WARNING"}

\* C1: a run with --teardown and no --phase executes exactly reexport,
\* opus_raid, aggregator_connect, storage_export, in this order, and never
\* precheck or verify.
C1_TeardownReverseOrder ==
    (argv.teardown /\ argv.phase = None)
        => /\ IsPrefix(Executed, TeardownOrder)
           /\ (pc = "done" => Executed = TeardownOrder)

\* C3: a run whose --limit names a host the loaded config does not have ends
\* in a ScopeError listing that host, and executes no phase.
C3_UnknownHostIsScopeError ==
    (ConfigLoads /\ PhaseAccepted /\ UnknownHosts # {})
        => /\ calls = <<>>
           /\ pc # "done"
           /\ (pc = "exit" => /\ error # None
                              /\ error[1].type = "ScopeError"
                              /\ UnknownHosts \subseteq Elems(error[1].detail))

\* C4: when --phase is given, exactly the selected phase is executed, once,
\* and no other phase is executed at any point of the run.
C4_OnlySelectedPhase ==
    args.phase # None
        => /\ \A i \in 1..Len(calls) :
                Executed[i] = SelectedPhase(args.phase[1])
           /\ Len(calls) <= 1
           /\ (pc \in {"teardown", "done"} => Len(calls) = 1)
C4_Witness ==
    /\ pc = "done"
    /\ args.phase = Some("raid")
    /\ Executed = <<"opus_raid">>

\* C5: two runs that differ only in --dry-run report the same phases and
\* hosts, and the dry run performs no mutation of the fabric.
C5_DryRunSameReport ==
    (twin # None /\ Finished)
        => /\ pc = twin[1].pc
           /\ log = twin[1].log
           /\ Executed = twin[1].executed
           /\ (argv.dry_run => mutations = {})
           /\ (twin[1].dry_run => twin[1].mutations = {})
C5_Witness ==
    /\ twin # None
    /\ pc = "done"
    /\ argv.dry_run
    /\ argv.limit = Some(<<"a">>)
    /\ Len(log) >= Len(ForwardOrder)

\* C6: a forward run without --phase executes precheck, storage_export,
\* aggregator_connect, opus_raid, reexport, verify in this order, each once,
\* and a phase starts only when the phase before it has returned.
C6_ForwardOrder ==
    (pc # "shell" /\ argv.phase = None /\ ~argv.teardown)
        => /\ IsPrefix(Executed, ForwardOrder)
           /\ Len(calls) = idx - 1
           /\ (pc \in {"teardown", "done"} => Executed = ForwardOrder)
C6_Witness ==
    /\ pc = "done"
    /\ argv.phase = None
    /\ ~argv.teardown
    /\ Executed = ForwardOrder

\* C7: with an invalid config document the run aborts with an error before
\* any phase is executed, and the error reports every violation found.
C7_InvalidConfigAborts ==
    (/\ argv.config # None
     /\ \/ argv.config[1].kind = "malformed"
        \/ argv.config[1].violations # {})
        => /\ calls = <<>>
           /\ mutations = {}
           /\ pc \notin {"dispatch", "teardown", "done"}
           /\ (pc = "exit" => error # None)
           /\ (pc = "exit" /\ PhaseAccepted /\ argv.config[1].kind = "json"
                 => /\ error[1].type = "ValidationError"
                    /\ Elems(error[1].detail) = argv.config[1].violations)
C7_Witness ==
    /\ pc = "exit"
    /\ error # None
    /\ error[1].type = "ValidationError"
    /\ Len(error[1].detail) >= 2
    /\ calls = <<>>

\* C8: over any sequence of runs each (phase, host) pair is mutated at most
\* once, and running a phase again after a run in which it returned is a
\* success without effect.
C8_AtMostOneMutation ==
    /\ \A e \in BagToSet(fabric) : CopiesIn(e, fabric) <= 1
    /\ (prev # None /\ Elems(Executed) \cap Elems(prev[1].executed) # {})
          => (error = None /\ mutations = {})
C8_Witness ==
    /\ prev # None
    /\ pc = "done"
    /\ "storage_export" \in Elems(Executed) \cap Elems(prev[1].executed)
    /\ \A e \in BagToSet(fabric) : CopiesIn(e, fabric) <= 1

\* C9: a run with --teardown performs no reversal: the phases invoked are
\* those of the forward run, nothing is mutated, and a run that reaches the
\* end of main has logged the 'not yet implemented' warning as its last record.
C9_TeardownOnlyWarns ==
    (pc # "shell" /\ argv.teardown)
        => /\ mutations = {}
           /\ (argv.phase = None => IsPrefix(Executed, ForwardOrder))
           /\ (pc # "done" => Warnings = {})
           /\ (pc = "done"
                 => /\ Warnings = {Len(log)}
                    /\ log[Len(log)].text = "teardown mode is not yet implemented")
C9_Witness ==
    /\ pc = "done"
    /\ argv.teardown
    /\ argv.phase = None
    /\ Len(log) = Len(ForwardOrder) + 1
    /\ log[Len(log)].level = "WARNING"

\* C10: the phases main invokes depend on --phase alone: two runs with a
\* valid config and the same --phase invoke the same phases whatever --limit,
\* --dry-run and --teardown are, and every phase receives the one Context
\* main built.
C10_PhasesDependOnPhaseOnly ==
    /\ (pc = "done" /\ prev # None /\ prev[1].phase = args.phase)
          => Executed = prev[1].executed
    /\ \A i \in 1..Len(calls) :
          /\ calls[i].ctx = ctx
          /\ calls[i].ctx.config = argv.config[1]
          /\ calls[i].ctx.dry_run = argv.dry_run
C10_Witness ==
    /\ pc = "done"
    /\ prev # None
    /\ twin # None
    /\ prev[1].phase = args.phase
    /\ argv.teardown
    /\ Len(calls) = Len(ForwardOrder)

====
